---------------------------- MODULE Spec2Model ----------------------------
(***************************************************************************)
(* fridge-check: the Analysis Gateway (api/analyze.js, one serverless      *)
(* handler) and the Client Wizard (src/App.jsx, one React component).      *)
(*                                                                         *)
(* GatewaySpec drives the handler with arbitrary HTTP requests and         *)
(* arbitrary upstream outcomes.  WizardSpec drives the component with      *)
(* arbitrary user events and arbitrary outcomes of its fetch calls.        *)
(*                                                                         *)
(* JavaScript values: a string-valued property that is missing is the      *)
(* string Undefined, null is Null; an object-valued property that is       *)
(* missing is the record UndefinedObj.  A text is a sequence of tokens.    *)
(***************************************************************************)
EXTENDS Integers, Sequences, FiniteSets, TLC

VARIABLES
    \* ---- Analysis Gateway (api/analyze.js) ----
    ANTHROPIC_API_KEY,  \* process.env.ANTHROPIC_API_KEY
    gpc,                \* where the current invocation of handler stands
    req,                \* the request of the current invocation
    upstreamCalls,      \* anthropic.messages.create calls of this invocation
    settled,            \* how the awaited upstream call settled
    res,                \* the responses the handler has sent, in order
    \* ---- Client Wizard (src/App.jsx): the component's state ----
    mode, image, imagePreview, ingredients, textInput, recipes, loading,
    error, impact, totalImpact, showDevStats, expandedRecipe,
    \* ---- Client Wizard: what the browser holds for the component ----
    previewReads,       \* files the FileReaders of the two pickers still read
    analyses            \* the analyses in flight, in order of submission

gatewayVars == <<ANTHROPIC_API_KEY, gpc, req, upstreamCalls, settled, res>>

stateVars == <<mode, image, imagePreview, ingredients, textInput, recipes,
               loading, error, impact, totalImpact, showDevStats, expandedRecipe>>

wizardVars == <<stateVars, previewReads, analyses>>

vars == <<gatewayVars, wizardVars>>

-----------------------------------------------------------------------------
(* Bounds *)

\* longest upstream reply text, in tokens
MaxTextLen == 4

\* largest token count the upstream reports
MaxTokens == 1

\* analyses the session accumulates before the wizard takes no more
MaxScans == 2

\* the largest token count calculateImpact is called with on its own
MaxCount == 10

-----------------------------------------------------------------------------
(* JavaScript values *)

Undefined == "<undefined>"
Null == "<null>"
UndefinedObj == [type |-> "undefined"]
NullObj == [type |-> "null"]

\* truthiness of a string-valued property
Truthy(v) == v \notin {Undefined, Null, ""}

Min(S) == CHOOSE m \in S : \A n \in S : m <= n
Max(S) == CHOOSE m \in S : \A n \in S : m >= n

\* { ...obj, [key]: value }
Merge(obj, key, value) ==
    [k \in (DOMAIN obj) \cup {key} |-> IF k = key THEN value ELSE obj[k]]

\* JSON.stringify drops the properties whose value is undefined
DropUndefined(obj) ==
    [k \in {x \in DOMAIN obj : obj[x] # Undefined} |-> obj[k]]

-----------------------------------------------------------------------------
(* Texts of the upstream reply.  Tokens: the two braces, the comma, "p" for *)
(* any other character run (prose, white space), two complete object       *)
(* members, "R" for "recipes":[...] and "U" for "usage":{...}, and "N" for *)
(* the key of a member whose value is the object that follows it.          *)

Alphabet == {"{", "}", ",", "p", "R", "U", "N"}

Texts == UNION {[1..n -> Alphabet] : n \in 0..MaxTextLen}

\* the value of a "usage" member the model itself wrote into its reply: no
\* count the upstream API reports
ReplyUsage == [input_tokens |-> -1, output_tokens |-> -1]

\* the value of a "recipes" member
ReplyRecipes == <<"recipe">>

\* analysisText.match(/\{[\s\S]*\}/): the greedy match starts at the first
\* "{" and ends at the last "}" after it; <<>> stands for null (no match).
jsonMatch(text) ==
    LET opens == {i \in 1..Len(text) : text[i] = "{"}
    IN  IF opens = {} THEN <<>>
        ELSE LET first == Min(opens)
                 closes == {j \in first..Len(text) : text[j] = "}"}
             IN  IF closes = {} THEN <<>>
                 ELSE SubSeq(text, first, Max(closes))

SyntaxError == [ok |-> FALSE, value |-> <<>>, next |-> 0]

RECURSIVE ParseObject(_, _)
RECURSIVE ParseMembers(_, _, _)

\* the members of an object, the first of them at position i, up to and
\* with the closing brace; a later member replaces an earlier one of its key
ParseMembers(s, i, acc) ==
    IF i > Len(s) THEN SyntaxError
    ELSE LET member ==
                 CASE s[i] = "R" ->
                        [ok |-> TRUE, next |-> i + 1,
                         value |-> Merge(acc, "recipes", ReplyRecipes)]
                   [] s[i] = "U" ->
                        [ok |-> TRUE, next |-> i + 1,
                         value |-> Merge(acc, "usage", ReplyUsage)]
                   [] s[i] = "N" ->
                        LET inner == ParseObject(s, i + 1)
                        IN  IF inner.ok
                            THEN [ok |-> TRUE, next |-> inner.next,
                                  value |-> Merge(acc, "nested", inner.value)]
                            ELSE SyntaxError
                   [] OTHER -> SyntaxError
         IN  IF ~member.ok \/ member.next > Len(s) THEN SyntaxError
             ELSE IF s[member.next] = "}"
             THEN [ok |-> TRUE, value |-> member.value, next |-> member.next + 1]
             ELSE IF s[member.next] = ","
             THEN ParseMembers(s, member.next + 1, member.value)
             ELSE SyntaxError

\* the object that starts at position i; next is the position after it
ParseObject(s, i) ==
    IF i + 1 > Len(s) \/ s[i] # "{" THEN SyntaxError
    ELSE IF s[i + 1] = "}" THEN [ok |-> TRUE, value |-> <<>>, next |-> i + 2]
    ELSE ParseMembers(s, i + 1, <<>>)

\* JSON.parse(s): the whole of s is one JSON value; on the tokens above the
\* only values are objects.  ok = FALSE stands for the SyntaxError thrown.
JSONparse(s) ==
    LET r == ParseObject(s, 1)
    IN  [ok |-> r.ok /\ r.next = Len(s) + 1, value |-> r.value]

-----------------------------------------------------------------------------
(* Analysis Gateway: api/analyze.js *)

Methods == {"OPTIONS", "GET", "POST"}

\* req.body: missing (no body was sent), or the parsed JSON object
Bodies ==
    {UndefinedObj} \cup
    [mode : {Undefined, "photo", "text", "video"},
     image : {Undefined, "", "b64"},
     ingredients : {Undefined, "", "eggs"}]

Requests == [method : Methods, body : Bodies]

NoRequest == [method |-> Undefined, body |-> UndefinedObj]

\* what anthropic.messages.create resolves with: the content blocks and the
\* usage, either of which the reply may lack
Replies ==
    [content : {<<>>} \cup {<<[type |-> "text", text |-> t]>> : t \in Texts},
     usage : {UndefinedObj} \cup
             [input_tokens : 0..MaxTokens, output_tokens : 0..MaxTokens]]

\* what anthropic.messages.create rejects with
UpstreamErrors ==
    [message : {"", "rate limited"},
     status : {Undefined, "429"},
     code : {Undefined, "ECONNRESET"}]

\* the TypeError of reading a property of undefined
TypeError(property) ==
    [message |-> "Cannot read properties of undefined (reading '" \o property \o "')",
     status |-> Undefined, code |-> Undefined]

NotSettled == [state |-> "pending"]

\* res.status(status).json(body)
Json(status, body) == [status |-> status, sent |-> "json", body |-> body]

\* res.status(status).end()
End(status) == [status |-> status, sent |-> "end", body |-> <<>>]

\* mutant: the credential check is missing
ApiKeyMissing_Never(key) == FALSE

\* line 24: if (!process.env.ANTHROPIC_API_KEY)
ApiKeyMissing(key) == ~Truthy(key)

\* line 31: mode === 'photo' && image
PhotoRequest(body) == body.mode = "photo" /\ Truthy(body.image)

\* mutant: text mode does not look at the ingredients
TextRequest_AnyIngredients(body) == body.mode = "text"

\* line 76: mode === 'text' && ingredients
TextRequest(body) == body.mode = "text" /\ Truthy(body.ingredients)

\* lines 33-75 and 78-107: the one completion request of a branch
PhotoCall(body) == [kind |-> "photo", image |-> body.image]
TextCall(body) == [kind |-> "text", ingredients |-> body.ingredients]

\* mutant: the outer catch answers with its own message only
Caught_OwnMessage(err) ==
    Json(500, DropUndefined(
        [error |-> "Failed to analyze",
         details |-> IF Truthy(err.status) THEN err.status ELSE err.code]))

\* lines 139-145: the outer catch
Caught(err) ==
    Json(500, DropUndefined(
        [error |-> IF Truthy(err.message) THEN err.message
                   ELSE "Failed to analyze",
         details |-> IF Truthy(err.status) THEN err.status ELSE err.code]))

\* mutant: raw carries the matched span, not the reply text
ParseFailure_RawSpan(analysisText) ==
    Json(500, [error |-> "Could not parse AI response", raw |-> jsonMatch(analysisText)])

\* lines 123-128: the inner catch
ParseFailure(analysisText) ==
    Json(500, [error |-> "Could not parse AI response", raw |-> analysisText])

\* mutant: the parsed object is spread after usage, so its own usage wins
Success_SpreadLast(analysis, usage) ==
    Json(200, IF "usage" \in DOMAIN analysis THEN analysis
              ELSE Merge(analysis, "usage",
                         [input_tokens |-> usage.input_tokens,
                          output_tokens |-> usage.output_tokens]))

\* lines 131-137: the success response
Success(analysis, usage) ==
    Json(200, Merge(analysis, "usage",
                    [input_tokens |-> usage.input_tokens,
                     output_tokens |-> usage.output_tokens]))

\* lines 8-110: the handler up to its first await, or to its return.
\* Line 22 destructures req.body outside the try: a missing body throws.
HandlerStart(r, key) ==
    IF r.method = "OPTIONS" THEN [do |-> "respond", with |-> End(200)]
    ELSE IF r.method # "POST"
    THEN [do |-> "respond", with |-> Json(405, [error |-> "Method not allowed"])]
    ELSE IF r.body = UndefinedObj THEN [do |-> "throw"]
    ELSE IF ApiKeyMissing(key)
    THEN [do |-> "respond", with |-> Json(500, [error |-> "API key not configured"])]
    ELSE IF PhotoRequest(r.body) THEN [do |-> "call", with |-> PhotoCall(r.body)]
    ELSE IF TextRequest(r.body) THEN [do |-> "call", with |-> TextCall(r.body)]
    ELSE [do |-> "respond",
          with |-> Json(400, [error |-> "Invalid request: provide image or ingredients"])]

\* lines 112-137: the handler after the upstream call resolved
HandlerResume(reply) ==
    IF reply.content = <<>> THEN Caught(TypeError("text"))
    ELSE LET analysisText == reply.content[1].text
             match == jsonMatch(analysisText)
             parsed == JSONparse(match)
         IN  IF match = <<>> \/ ~parsed.ok THEN ParseFailure(analysisText)
             ELSE IF reply.usage = UndefinedObj THEN Caught(TypeError("input_tokens"))
             ELSE Success(parsed.value, reply.usage)

\* The platform invokes handler(req, res) with a fresh res; the handler runs
\* to its first await or to its return.
Invoke ==
    /\ gpc = "idle"
    /\ \E r \in Requests :
       /\ req' = r
       /\ LET out == HandlerStart(r, ANTHROPIC_API_KEY)
          IN  CASE out.do = "respond" ->
                     /\ res' = <<out.with>>
                     /\ upstreamCalls' = <<>>
                     /\ gpc' = "done"
                [] out.do = "call" ->
                     /\ res' = <<>>
                     /\ upstreamCalls' = <<out.with>>
                     /\ gpc' = "awaiting"
                [] out.do = "throw" ->
                     /\ res' = <<>>
                     /\ upstreamCalls' = <<>>
                     /\ gpc' = "threw"
    /\ UNCHANGED <<ANTHROPIC_API_KEY, settled, wizardVars>>

\* The awaited call resolves and the handler runs to its return.
UpstreamResolves ==
    /\ gpc = "awaiting"
    /\ \E reply \in Replies :
       /\ settled' = [state |-> "resolved", value |-> reply]
       /\ res' = Append(res, HandlerResume(reply))
    /\ gpc' = "done"
    /\ UNCHANGED <<ANTHROPIC_API_KEY, req, upstreamCalls, wizardVars>>

\* The awaited call rejects and the outer catch answers.
UpstreamRejects ==
    /\ gpc = "awaiting"
    /\ \E err \in UpstreamErrors :
       /\ settled' = [state |-> "rejected", error |-> err]
       /\ res' = Append(res, Caught(err))
    /\ gpc' = "done"
    /\ UNCHANGED <<ANTHROPIC_API_KEY, req, upstreamCalls, wizardVars>>

\* The invocation is over: the gateway keeps nothing of it (no session, no
\* cache), and the next request starts from the same state as the first.
InvocationEnds ==
    /\ gpc \in {"done", "threw"}
    /\ gpc' = "idle"
    /\ req' = NoRequest
    /\ upstreamCalls' = <<>>
    /\ settled' = NotSettled
    /\ res' = <<>>
    /\ UNCHANGED <<ANTHROPIC_API_KEY, wizardVars>>

GatewayNext ==
    \/ Invoke
    \/ InvocationEnds
    \/ UpstreamResolves
    \/ UpstreamRejects

-----------------------------------------------------------------------------
(* Client Wizard: src/App.jsx *)

\* calculateImpact in exact arithmetic: each field is an integer count of the
\* unit in which one token costs a whole number.
\*   water            5 per token, unit 10^-4 ml    (/ 1000 * 0.5)
\*   energy           3 per token, unit 10^-7 kWh   (/ 1000 * 0.0003)
\*   co2              2 per token, unit 10^-4 g     (/ 1000 * 0.2)
\*   phoneCharges     energy / 0.01:   unit 10^-5, the count of energy units
\*   drinkingGlasses  water / 250:     unit 10^-6, 2/5 of the count of water units
WaterPerToken == 5
EnergyPerToken == 3
Co2PerToken == 2

\* mutant: the estimate counts the input tokens only
calculateImpact_InputOnly(inputTokens, outputTokens) ==
    LET totalTokens == inputTokens + outputTokens
        waterMl == inputTokens * WaterPerToken
        energyKwh == inputTokens * EnergyPerToken
        co2Grams == inputTokens * Co2PerToken
    IN  [tokens |-> [input |-> inputTokens, output |-> outputTokens,
                     total |-> totalTokens],
         water |-> waterMl,
         energy |-> energyKwh,
         co2 |-> co2Grams,
         phoneCharges |-> energyKwh,
         drinkingGlasses |-> (waterMl * 2) \div 5]

calculateImpact(inputTokens, outputTokens) ==
    LET totalTokens == inputTokens + outputTokens
        waterMl == totalTokens * WaterPerToken
        energyKwh == totalTokens * EnergyPerToken
        co2Grams == totalTokens * Co2PerToken
    IN  [tokens |-> [input |-> inputTokens, output |-> outputTokens,
                     total |-> totalTokens],
         water |-> waterMl,
         energy |-> energyKwh,
         co2 |-> co2Grams,
         phoneCharges |-> energyKwh,
         drinkingGlasses |-> (waterMl * 2) \div 5]

\* the files the user can pick, all of an image type, and those the user can
\* drop, of any type
Files == {"a.jpg", "b.jpg"}
DroppedFiles == Files \cup {"notes.txt"}

\* file.type.startsWith('image/')
IsImageType(file) == file \in Files

\* reader.result of readAsDataURL: the media type and, after the comma, the
\* base64 text of the file
DataURL(file) == [header |-> "data:image/jpeg;base64", base64 |-> "base64 of " \o file]

\* what the user can type: texts of the characters " " and "e"
TextInputs == {<<>>, <<" ">>, <<"e">>, <<" ", "e">>}

\* String.prototype.trim: the text without its leading and trailing spaces
RECURSIVE trim(_)
trim(text) ==
    IF text = <<>> THEN <<>>
    ELSE IF Head(text) = " " THEN trim(Tail(text))
    ELSE IF text[Len(text)] = " " THEN trim(SubSeq(text, 1, Len(text) - 1))
    ELSE text

\* the token counts a body can report
Usages == [input_tokens : 0..MaxTokens, output_tokens : 0..MaxTokens]

\* the bodies without an error field response.json() can resolve with: each
\* of the three fields the component reads may be missing, and a whole
\* result may carry any token counts
SuccessDatas ==
    {i @@ r @@ u :
        i \in {<<>>, [ingredients |-> <<>>], [ingredients |-> <<"egg">>]},
        r \in {<<>>, [recipes |-> <<>>], [recipes |-> <<"omelette">>]},
        u \in {<<>>, [usage |-> [input_tokens |-> MaxTokens,
                                 output_tokens |-> 0]]}} \cup
    {[ingredients |-> <<"egg">>, recipes |-> <<"omelette">>, usage |-> c] :
        c \in Usages}

\* the bodies with an error field: the error alone, or beside a whole result
ErrorDatas ==
    {[error |-> "Could not parse AI response"]} \cup
    {[error |-> "Could not parse AI response", ingredients |-> <<"egg">>,
      recipes |-> <<"omelette">>, usage |-> c] : c \in Usages}

Datas == SuccessDatas \cup ErrorDatas

\* data.error is there and truthy
HasError(data) == "error" \in DOMAIN data /\ Truthy(data.error)

\* data[field] || []
OrEmpty(data, field) == IF field \in DOMAIN data THEN data[field] ELSE <<>>

\* expandedRecipe === null
NoIndex == -1

\* what is on the screen (lines 176, 247, 319, 372)
ChoiceScreen == mode = "choice"
PhotoScreen == mode = "photo" /\ Len(recipes) = 0
TextScreen == mode = "text" /\ Len(recipes) = 0
ResultScreen == Len(recipes) > 0

\* line 290: the photo submit button is rendered with a preview
AnalyzeImageShown == PhotoScreen /\ imagePreview # NullObj

\* mutant: the photo submit button is never disabled
AnalyzeImageDisabled_Never == FALSE

\* line 293: disabled={loading}
AnalyzeImageDisabled == loading

\* line 349: disabled={loading || !textInput.trim()}
AnalyzeTextDisabled == loading \/ trim(textInput) = <<>>

\* s without its i-th element
Remove(s, i) == SubSeq(s, 1, i - 1) \o SubSeq(s, i + 1, Len(s))

\* lines 188, 209: the two buttons of the choice screen
SelectMode ==
    /\ ChoiceScreen
    /\ \E m \in {"photo", "text"} : mode' = m
    /\ UNCHANGED <<image, imagePreview, ingredients, textInput, recipes, loading,
                   error, impact, totalImpact, showDevStats, expandedRecipe,
                   previewReads, analyses,
                   gatewayVars>>

\* lines 37-42 and 49-52: setImage(file) and a FileReader that reads it
SelectFile(file) ==
    /\ image' = file
    /\ previewReads' = previewReads \cup {file}
    /\ UNCHANGED <<mode, imagePreview, ingredients, textInput, recipes, loading,
                   error, impact, totalImpact, showDevStats, expandedRecipe,
                   analyses,
                   gatewayVars>>

\* lines 35-43: the file input of the photo screen changes
handleImageUpload ==
    /\ PhotoScreen
    /\ \E file \in Files : SelectFile(file)

\* lines 45-54: a file is dropped on the photo screen's drop zone
handleDrop ==
    /\ PhotoScreen
    /\ \E file \in DroppedFiles :
          IF IsImageType(file) THEN SelectFile(file) ELSE UNCHANGED vars

\* lines 40, 51: reader.onloadend = () => setImagePreview(reader.result); the
\* result is null when the read failed
PreviewLoadEnd ==
    \E file \in previewReads, ok \in BOOLEAN :
        /\ imagePreview' = IF ok THEN DataURL(file) ELSE NullObj
        /\ previewReads' = previewReads \ {file}
        /\ UNCHANGED <<mode, image, ingredients, textInput, recipes, loading,
                       error, impact, totalImpact, showDevStats, expandedRecipe,
                       analyses,
                   gatewayVars>>

\* line 341: the textarea of the text screen changes
SetTextInput ==
    /\ TextScreen
    /\ \E text \in TextInputs : textInput' = text
    /\ UNCHANGED <<mode, image, imagePreview, ingredients, recipes, loading,
                   error, impact, totalImpact, showDevStats, expandedRecipe,
                   previewReads, analyses,
                   gatewayVars>>

\* mutant: analyzeImage without its check that a file was selected
analyzeImage_NoFileCheck ==
    /\ loading' = TRUE
    /\ error' = Null
    /\ analyses' = Append(analyses, [kind |-> "photo", stage |-> "reading",
                                     file |-> image, body |-> NullObj])
    /\ UNCHANGED <<mode, image, imagePreview, ingredients, textInput, recipes,
                   impact, totalImpact, showDevStats, expandedRecipe,
                   previewReads,
                   gatewayVars>>

\* lines 56-62, 90: analyzeImage up to reader.readAsDataURL(image)
analyzeImage ==
    IF image = Null THEN UNCHANGED vars
    ELSE /\ loading' = TRUE
         /\ error' = Null
         /\ analyses' = Append(analyses, [kind |-> "photo", stage |-> "reading",
                                          file |-> image, body |-> NullObj])
         /\ UNCHANGED <<mode, image, imagePreview, ingredients, textInput, recipes,
                        impact, totalImpact, showDevStats, expandedRecipe,
                        previewReads,
                   gatewayVars>>

\* lines 290-294: a click on the photo submit button; a disabled button
\* dispatches no click
ClickAnalyzeImage ==
    /\ AnalyzeImageShown
    /\ totalImpact.scans < MaxScans
    /\ IF AnalyzeImageDisabled THEN UNCHANGED vars ELSE analyzeImage

\* lines 63-69: the analysis' reader.onloadend up to the fetch it awaits.  When
\* the read failed reader.result is null and .split throws in the callback,
\* which nothing catches.
AnalysisReadEnd(i) ==
    /\ analyses[i].stage = "reading"
    /\ \E ok \in BOOLEAN :
          analyses' =
              IF ok
              THEN [analyses EXCEPT ![i] =
                       [kind |-> "photo", stage |-> "fetching", file |-> @.file,
                        body |-> [image |-> DataURL(@.file).base64, mode |-> "photo"]]]
              ELSE Remove(analyses, i)
    /\ UNCHANGED <<stateVars, previewReads,
                   gatewayVars>>

\* lines 97-107: analyzeText up to the fetch it awaits
analyzeText ==
    IF trim(textInput) = <<>> THEN UNCHANGED vars
    ELSE /\ loading' = TRUE
         /\ error' = Null
         /\ analyses' = Append(analyses, [kind |-> "text", stage |-> "fetching",
                                          file |-> Null,
                                          body |-> [ingredients |-> textInput,
                                                    mode |-> "text"]])
         /\ UNCHANGED <<mode, image, imagePreview, ingredients, textInput, recipes,
                        impact, totalImpact, showDevStats, expandedRecipe,
                        previewReads,
                   gatewayVars>>

\* lines 347-350: a click on the text submit button
ClickAnalyzeText ==
    /\ TextScreen
    /\ totalImpact.scans < MaxScans
    /\ IF AnalyzeTextDisabled THEN UNCHANGED vars ELSE analyzeText

\* mutant: an error response clears the stored ingredients
IngredientsAfter_ClearedOnError(data) ==
    IF HasError(data) THEN <<>> ELSE OrEmpty(data, "ingredients")

\* lines 72-75, 110-113: setIngredients(data.ingredients || []) unless data.error
IngredientsAfter(data) ==
    IF HasError(data) THEN ingredients ELSE OrEmpty(data, "ingredients")

\* lines 76, 114: setRecipes(data.recipes || []) unless data.error
RecipesAfter(data) ==
    IF HasError(data) THEN recipes ELSE OrEmpty(data, "recipes")

\* lines 77-79, 115-117: setImpact(newImpact) when data.usage is there
ImpactAfter(data) ==
    IF ~HasError(data) /\ "usage" \in DOMAIN data
    THEN calculateImpact(data.usage.input_tokens, data.usage.output_tokens)
    ELSE impact

\* mutant: the accumulator keeps the last estimate instead of adding it
TotalImpactAfter_LastOnly(data) ==
    IF ~HasError(data) /\ "usage" \in DOMAIN data
    THEN LET newImpact == calculateImpact(data.usage.input_tokens,
                                          data.usage.output_tokens)
         IN  [water |-> newImpact.water,
              energy |-> newImpact.energy,
              co2 |-> newImpact.co2,
              scans |-> totalImpact.scans + 1]
    ELSE totalImpact

\* lines 80-85, 118-123: setTotalImpact(prev => ...) when data.usage is there
TotalImpactAfter(data) ==
    IF ~HasError(data) /\ "usage" \in DOMAIN data
    THEN LET newImpact == calculateImpact(data.usage.input_tokens,
                                          data.usage.output_tokens)
         IN  [water |-> totalImpact.water + newImpact.water,
              energy |-> totalImpact.energy + newImpact.energy,
              co2 |-> totalImpact.co2 + newImpact.co2,
              scans |-> totalImpact.scans + 1]
    ELSE totalImpact

\* lines 71-88 and 109-126: response.json() resolved with data
FetchResolves(i, data) ==
    /\ analyses[i].stage = "fetching"
    /\ error' = IF HasError(data) THEN data.error ELSE error
    /\ ingredients' = IngredientsAfter(data)
    /\ recipes' = RecipesAfter(data)
    /\ impact' = ImpactAfter(data)
    /\ totalImpact' = TotalImpactAfter(data)
    /\ loading' = FALSE
    /\ analyses' = Remove(analyses, i)
    /\ UNCHANGED <<mode, image, imagePreview, textInput, showDevStats,
                   expandedRecipe, previewReads,
                   gatewayVars>>

\* fetch, or response.json(), rejected.  In analyzeText the catch of lines
\* 127-130 takes it.  In analyzeImage the await is in the reader's callback,
\* out of reach of the catch of lines 91-94: nothing takes it.
FetchRejects(i) ==
    /\ analyses[i].stage = "fetching"
    /\ analyses' = Remove(analyses, i)
    /\ IF analyses[i].kind = "text"
       THEN /\ error' = "Failed to get recipes. Please try again."
            /\ loading' = FALSE
       ELSE UNCHANGED <<error, loading,
                   gatewayVars>>
    /\ UNCHANGED <<mode, image, imagePreview, ingredients, textInput, recipes,
                   impact, totalImpact, showDevStats, expandedRecipe, previewReads,
                   gatewayVars>>

\* mutant: reset also clears the session's accumulator
reset_ClearsSession ==
    /\ mode' = "choice"
    /\ image' = Null
    /\ imagePreview' = NullObj
    /\ ingredients' = <<>>
    /\ textInput' = <<>>
    /\ recipes' = <<>>
    /\ error' = Null
    /\ impact' = NullObj
    /\ expandedRecipe' = NoIndex
    /\ totalImpact' = [water |-> 0, energy |-> 0, co2 |-> 0, scans |-> 0]
    /\ UNCHANGED <<loading, showDevStats, previewReads, analyses,
                   gatewayVars>>

\* lines 133-143; the header's button (line 155) is on every screen
reset ==
    /\ mode' = "choice"
    /\ image' = Null
    /\ imagePreview' = NullObj
    /\ ingredients' = <<>>
    /\ textInput' = <<>>
    /\ recipes' = <<>>
    /\ error' = Null
    /\ impact' = NullObj
    /\ expandedRecipe' = NoIndex
    /\ UNCHANGED <<loading, totalImpact, showDevStats, previewReads, analyses,
                   gatewayVars>>

\* line 385: the 'Dev stats' button of the result screen's impact card
ToggleDevStats ==
    /\ ResultScreen /\ impact # NullObj
    /\ showDevStats' = ~showDevStats
    /\ UNCHANGED <<mode, image, imagePreview, ingredients, textInput, recipes,
                   loading, error, impact, totalImpact, expandedRecipe,
                   previewReads, analyses,
                   gatewayVars>>

\* line 438: a click on the i-th recipe of the result screen
ToggleRecipe ==
    /\ ResultScreen
    /\ \E i \in 0..(Len(recipes) - 1) :
          expandedRecipe' = IF expandedRecipe = i THEN NoIndex ELSE i
    /\ UNCHANGED <<mode, image, imagePreview, ingredients, textInput, recipes,
                   loading, error, impact, totalImpact, showDevStats,
                   previewReads, analyses,
                   gatewayVars>>

\* lines 78, 116: calculateImpact called with any two token counts, its
\* result kept as the estimate
ComputeImpact ==
    /\ \E inputTokens \in 0..MaxCount, outputTokens \in 0..MaxCount :
          impact' = calculateImpact(inputTokens, outputTokens)
    /\ UNCHANGED <<mode, image, imagePreview, ingredients, textInput, recipes,
                   loading, error, totalImpact, showDevStats, expandedRecipe,
                   previewReads, analyses,
                   gatewayVars>>

WizardNext ==
    \/ SelectMode
    \/ handleImageUpload
    \/ handleDrop
    \/ PreviewLoadEnd
    \/ SetTextInput
    \/ ClickAnalyzeImage
    \/ ClickAnalyzeText
    \/ \E i \in 1..Len(analyses) : AnalysisReadEnd(i)
    \/ \E i \in 1..Len(analyses) : \E data \in Datas : FetchResolves(i, data)
    \/ \E i \in 1..Len(analyses) : FetchRejects(i)
    \/ reset
    \/ ToggleDevStats
    \/ ToggleRecipe

-----------------------------------------------------------------------------
(* The two programs *)

\* The gateway is deployed with or without its credential and has served
\* nothing; the component has just been mounted (lines 21-32).
Init ==
    /\ ANTHROPIC_API_KEY \in {Undefined, "sk-key"}
    /\ gpc = "idle"
    /\ req = NoRequest
    /\ upstreamCalls = <<>>
    /\ settled = NotSettled
    /\ res = <<>>
    /\ mode = "choice"
    /\ image = Null
    /\ imagePreview = NullObj
    /\ ingredients = <<>>
    /\ textInput = <<>>
    /\ recipes = <<>>
    /\ loading = FALSE
    /\ error = Null
    /\ impact = NullObj
    /\ totalImpact = [water |-> 0, energy |-> 0, co2 |-> 0, scans |-> 0]
    /\ showDevStats = FALSE
    /\ expandedRecipe = NoIndex
    /\ previewReads = {}
    /\ analyses = <<>>

\* the same, the gateway deployed with its credential
WizardInit ==
    /\ ANTHROPIC_API_KEY = "sk-key"
    /\ gpc = "idle"
    /\ req = NoRequest
    /\ upstreamCalls = <<>>
    /\ settled = NotSettled
    /\ res = <<>>
    /\ mode = "choice"
    /\ image = Null
    /\ imagePreview = NullObj
    /\ ingredients = <<>>
    /\ textInput = <<>>
    /\ recipes = <<>>
    /\ loading = FALSE
    /\ error = Null
    /\ impact = NullObj
    /\ totalImpact = [water |-> 0, energy |-> 0, co2 |-> 0, scans |-> 0]
    /\ showDevStats = FALSE
    /\ expandedRecipe = NoIndex
    /\ previewReads = {}
    /\ analyses = <<>>

\* the gateway under any requests and any upstream outcomes
GatewaySpec == Init /\ [][GatewayNext]_vars

\* the wizard under any user events and any outcomes of its requests
WizardSpec == WizardInit /\ [][WizardNext]_vars

\* calculateImpact alone, called again and again with any token counts
ImpactSpec == WizardInit /\ [][ComputeImpact]_vars

-----------------------------------------------------------------------------
(* Analysis Gateway: what the claims speak of *)

\* the invocation has ended, by a response or by throwing
Over == gpc \in {"done", "threw"}

\* a property of the request body; a request without a body has none
BodyField(body, field) == IF body = UndefinedObj THEN Undefined ELSE body[field]

\* the request shape the validation rejects: photo without an image, text
\* without a non-empty ingredients string, or any other mode
InvalidShape(body) ==
    LET m == BodyField(body, "mode")
    IN  \/ m = "photo" /\ BodyField(body, "image") \in {Undefined, ""}
        \/ m = "text" /\ BodyField(body, "ingredients") \in {Undefined, ""}
        \/ m \notin {"photo", "text"}

ValidationFailure ==
    [status |-> 400, sent |-> "json",
     body |-> [error |-> "Invalid request: provide image or ingredients"]]

\* the reply text of a resolved upstream call that has one
HasReplyText == settled.state = "resolved" /\ settled.value.content # <<>>
ReplyText == settled.value.content[1].text

\* the reply text holds a span from a first "{" to a last "}" and the span
\* parses as JSON
ReplyParses == jsonMatch(ReplyText) # <<>> /\ JSONparse(jsonMatch(ReplyText)).ok
Parsed == JSONparse(jsonMatch(ReplyText)).value

IsParseFailure(r) ==
    /\ r.status = 500 /\ r.sent = "json"
    /\ DOMAIN r.body = {"error", "raw"}
    /\ r.body.error = "Could not parse AI response"

CallExpected ==
    /\ req.method = "POST"
    /\ Truthy(ANTHROPIC_API_KEY)
    /\ req.body # UndefinedObj
    /\ \/ req.body.mode = "photo" /\ req.body.image \notin {Undefined, ""}
       \/ req.body.mode = "text" /\ req.body.ingredients \notin {Undefined, ""}

\* C2: an invocation calls the upstream model exactly once when the method is
\* POST, a credential is configured and the request is valid, and never
\* otherwise; no invocation makes two upstream calls.
C2_OneUpstreamCall ==
    /\ Len(upstreamCalls) <= 1
    /\ gpc # "idle" => Len(upstreamCalls) = (IF CallExpected THEN 1 ELSE 0)
    /\ gpc = "idle" => upstreamCalls = <<>>

C2_Witness ==
    /\ gpc = "done" /\ Len(upstreamCalls) = 1 /\ upstreamCalls[1].kind = "text"
    /\ settled.state = "resolved"

\* C3: when the upstream call succeeds with a reply text that holds no span
\* from a first "{" to a last "}", or whose span does not parse, the handler
\* answers once, with 'Could not parse AI response' and the reply text
\* unchanged as raw: it neither throws nor answers 200.
C3_ParseFailure ==
    (gpc = "done" /\ HasReplyText /\ ~ReplyParses)
        => /\ Len(res) = 1
           /\ IsParseFailure(res[1])
           /\ res[1].body.raw = ReplyText

\* a reply with prose around a span that does not parse
C3_Witness ==
    /\ gpc = "done" /\ HasReplyText
    /\ jsonMatch(ReplyText) # <<>> /\ jsonMatch(ReplyText) # ReplyText
    /\ ~JSONparse(jsonMatch(ReplyText)).ok
    /\ IsParseFailure(res[1])

\* C4: a 200 response carries the parsed object's fields and a usage object
\* whose counts are those the upstream call reported, also when the parsed
\* object has a usage field of its own.
C4_SuccessBody ==
    (gpc = "done" /\ Len(res) = 1 /\ res[1].status = 200 /\ req.method = "POST")
        => /\ HasReplyText /\ ReplyParses
           /\ res[1].sent = "json"
           /\ DOMAIN res[1].body = (DOMAIN Parsed) \cup {"usage"}
           /\ \A k \in (DOMAIN Parsed) \ {"usage"} : res[1].body[k] = Parsed[k]
           /\ res[1].body.usage =
                  [input_tokens |-> settled.value.usage.input_tokens,
                   output_tokens |-> settled.value.usage.output_tokens]

\* a success whose parsed object carries a usage field of its own
C4_Witness ==
    /\ gpc = "done" /\ Len(res) = 1 /\ res[1].status = 200 /\ req.method = "POST"
    /\ "usage" \in DOMAIN Parsed /\ Parsed.usage = ReplyUsage
    /\ res[1].body.usage # ReplyUsage
    /\ settled.value.usage.input_tokens # settled.value.usage.output_tokens

\* C5 as stated: when the reply parses but the upstream reported no usage, the
\* handler answers 200 with the parsed fields and without a usage field.
C5_SuccessWithoutUsage ==
    (gpc = "done" /\ HasReplyText /\ ReplyParses /\ settled.value.usage = UndefinedObj)
        => res = <<Json(200, Parsed)>>

IsUpstreamFailure(r) ==
    /\ r.status = 500 /\ r.sent = "json"
    /\ "error" \in DOMAIN r.body /\ "raw" \notin DOMAIN r.body

\* C6: when the upstream call fails, the handler answers with the upstream
\* error message (its fallback when the error has none) and the upstream
\* status, else the error code, as details when there is one: a response
\* unlike the parse failure (no raw) and the validation failure (not 400).
\* Each of the three failures is the one response of its invocation, which
\* ends with it having made at most the one upstream call.
C6_Failures ==
    /\ (gpc = "done" /\ settled.state = "rejected")
          => LET e == settled.error
             IN  /\ Len(res) = 1
                 /\ IsUpstreamFailure(res[1])
                 /\ ~IsParseFailure(res[1]) /\ res[1] # ValidationFailure
                 /\ res[1].body.error =
                        (IF e.message # "" THEN e.message ELSE "Failed to analyze")
                 /\ e.status # Undefined
                        => "details" \in DOMAIN res[1].body /\ res[1].body.details = e.status
                 /\ (e.status = Undefined /\ e.code # Undefined)
                        => "details" \in DOMAIN res[1].body /\ res[1].body.details = e.code
                 /\ (e.status = Undefined /\ e.code = Undefined)
                        => "details" \notin DOMAIN res[1].body
    /\ \A i \in 1..Len(res) :
          (res[i] = ValidationFailure \/ IsParseFailure(res[i])
              \/ (settled.state = "rejected" /\ IsUpstreamFailure(res[i])))
            => /\ Len(res) = 1 /\ gpc = "done"
               /\ Len(upstreamCalls) = (IF res[i] = ValidationFailure THEN 0 ELSE 1)

C6_Witness ==
    /\ gpc = "done" /\ settled.state = "rejected"
    /\ settled.error.message = "rate limited" /\ settled.error.status = "429"
    /\ res[1].body = [error |-> "rate limited", details |-> "429"]

-----------------------------------------------------------------------------
(* Client Wizard: what the claims speak of *)

\* a step the user takes
UserEvent ==
    \/ SelectMode \/ handleImageUpload \/ handleDrop \/ SetTextInput
    \/ ClickAnalyzeImage \/ ClickAnalyzeText \/ reset
    \/ ToggleDevStats \/ ToggleRecipe

\* the i-th analysis in flight ends in failure: its fetch failed, or the
\* response body has an error field
FailureArrives(i) ==
    /\ analyses[i].stage = "fetching"
    /\ analyses' = Remove(analyses, i)
    /\ \/ FetchRejects(i)
       \/ \E data \in ErrorDatas : FetchResolves(i, data)

\* C7: at most one analysis is in flight in every reachable state, and no
\* step of the user taken while one is in flight (a click on a submit
\* button, a reset, a file selection, ...) starts a second one, queues one
\* or removes the one in flight.
C7_SingleInFlight ==
    /\ [](Len(analyses) <= 1)
    /\ [][(analyses # <<>> /\ UserEvent) => analyses' = analyses]_vars

\* a request is on the network, the user has picked another file since, and
\* the photo submit button is on the screen, disabled
C7_Witness ==
    /\ Len(analyses) = 1 /\ analyses[1].stage = "fetching"
    /\ AnalyzeImageShown /\ AnalyzeImageDisabled
    /\ image # Null /\ image # analyses[1].file
    /\ totalImpact.scans < MaxScans

\* C8 as stated: whenever a submission ends in failure, in photo mode or in
\* text mode, by a failed fetch or by an error field in the response body, the
\* wizard stores an error string and leaves the in-flight state.
C8_FailureSurfaces ==
    [][\A i \in 1..Len(analyses) :
          FailureArrives(i) => (error' # Null /\ loading' = FALSE)]_vars

\* C9: the step on which a submission ends in failure leaves ingredients and
\* recipes, and all of the component's state but error and loading, as they
\* were.
C9_FailureKeepsResult ==
    [][\A i \in 1..Len(analyses) :
          FailureArrives(i)
            => /\ ingredients' = ingredients
               /\ recipes' = recipes
               /\ UNCHANGED <<mode, image, imagePreview, textInput, impact,
                              totalImpact, showDevStats, expandedRecipe>>]_vars

\* a failure has been stored while ingredients of an earlier analysis are
\* still there
C9_Witness ==
    /\ error # Null /\ ~loading /\ analyses = <<>>
    /\ ingredients # <<>>

\* C10: reset sets mode to 'choice', clears the pending input (image, preview,
\* text), the result (ingredients, recipes, impact) and the error, and leaves
\* the session's accumulator as it was.
C10_Reset ==
    [][reset
         => /\ mode' = "choice"
            /\ image' = Null /\ imagePreview' = NullObj /\ textInput' = <<>>
            /\ ingredients' = <<>> /\ recipes' = <<>> /\ impact' = NullObj
            /\ error' = Null
            /\ totalImpact' = totalImpact]_vars

\* the state a reset leaves after an analysis was accumulated
C10_Witness ==
    /\ mode = "choice" /\ totalImpact.scans > 0 /\ totalImpact.water > 0
    /\ image = Null /\ imagePreview = NullObj /\ textInput = <<>>
    /\ ingredients = <<>> /\ recipes = <<>> /\ impact = NullObj /\ error = Null

\* the i-th analysis in flight ends in success: the response body is data,
\* which has no error field
SuccessArrives(i, data) ==
    /\ analyses[i].stage = "fetching"
    /\ analyses' = Remove(analyses, i)
    /\ FetchResolves(i, data)

\* the ImpactEstimate of a successful analysis: that of its usage, and
\* nothing when the body has no usage
Estimate(data) ==
    IF "usage" \in DOMAIN data
    THEN calculateImpact(data.usage.input_tokens, data.usage.output_tokens)
    ELSE [water |-> 0, energy |-> 0, co2 |-> 0]

\* the accumulator total with one more estimate and n more scans
Accumulated(total, estimate, n) ==
    [water |-> total.water + estimate.water,
     energy |-> total.energy + estimate.energy,
     co2 |-> total.co2 + estimate.co2,
     scans |-> total.scans + n]

\* One step of the accumulator: a success adds its estimate and, when it
\* counts, one scan; every other step leaves the accumulator alone.
AccumulatorStep(countsWithoutUsage) ==
    IF \E i \in 1..Len(analyses) : \E data \in SuccessDatas : SuccessArrives(i, data)
    THEN \A i \in 1..Len(analyses) : \A data \in SuccessDatas :
            SuccessArrives(i, data)
              => totalImpact' =
                    Accumulated(totalImpact, Estimate(data),
                                IF countsWithoutUsage \/ "usage" \in DOMAIN data
                                THEN 1 ELSE 0)
    ELSE totalImpact' = totalImpact

\* C11 as stated: the accumulator starts at zero, every successful analysis
\* adds its estimate to water, energy and co2 and one to the scan count,
\* and no other step (failure, rejected submit, reset, toggle) changes it.
C11_Original ==
    /\ totalImpact = [water |-> 0, energy |-> 0, co2 |-> 0, scans |-> 0]
    /\ [][AccumulatorStep(TRUE)]_vars

\* C11: the accumulator starts at zero, every successful analysis whose
\* body carries usage adds its estimate to water, energy and co2 and one to
\* the scan count, and no other step changes it: a success without usage, a
\* failure, a rejected submit, a reset and a toggle leave it as it was.  So
\* the sums are those of the estimates of all successes received, and the
\* scan count is the number of successes that carried usage.
C11_Accumulator ==
    /\ totalImpact = [water |-> 0, energy |-> 0, co2 |-> 0, scans |-> 0]
    /\ [][AccumulatorStep(FALSE)]_vars

\* two analyses were accumulated, the first of one token and the last of
\* two
C11_Witness ==
    /\ totalImpact = [water |-> 3 * WaterPerToken, energy |-> 3 * EnergyPerToken,
                      co2 |-> 3 * Co2PerToken, scans |-> 2]
    /\ impact # NullObj /\ impact.tokens.total = 2

\* the fields of estimate are those of the formulas for the counts i and o.
\* The counts of the scaled units are compared with the formulas cross-
\* multiplied: water is in 10^-4 ml, energy in 10^-7 kWh, co2 in 10^-4 g,
\* phoneCharges in 10^-5 and drinkingGlasses in 10^-6.
ExactEstimate(estimate, i, o) ==
    LET total == estimate.tokens.total IN
    /\ estimate.tokens.input = i /\ estimate.tokens.output = o
    /\ total = i + o
    \* water = total / 1000 * 0.5
    /\ estimate.water * 1000 * 10 = total * 5 * 10000
    \* energy = total / 1000 * 0.0003
    /\ estimate.energy * 1000 * 10000 = total * 3 * 10000000
    \* co2 = total / 1000 * 0.2
    /\ estimate.co2 * 1000 * 10 = total * 2 * 10000
    \* phoneCharges = energy / 0.01
    /\ estimate.phoneCharges * 10000000 = estimate.energy * 100 * 100000
    \* drinkingGlasses = water / 250
    /\ estimate.drinkingGlasses * 250 * 10000 = estimate.water * 1000000

\* every field of estimate is zero
ZeroEstimate(estimate) ==
    /\ estimate.tokens = [input |-> 0, output |-> 0, total |-> 0]
    /\ estimate.water = 0 /\ estimate.energy = 0 /\ estimate.co2 = 0
    /\ estimate.phoneCharges = 0 /\ estimate.drinkingGlasses = 0

\* C12: for all counts i and o, calculateImpact(i, o) has total = i + o and
\* water, energy, co2, phoneCharges and drinkingGlasses as the formulas give
\* them in exact arithmetic; calculateImpact(0, 0) has every field zero; and
\* of two estimates the one of more tokens has strictly more water, energy
\* and co2.
C12_Formula ==
    [][\A i \in 0..MaxCount, o \in 0..MaxCount :
          impact' = calculateImpact(i, o)
            => /\ ExactEstimate(impact', i, o)
               /\ (i = 0 /\ o = 0) => ZeroEstimate(impact')
               /\ (impact # NullObj /\ impact.tokens.total < i + o)
                    => /\ impact.water < impact'.water
                       /\ impact.energy < impact'.energy
                       /\ impact.co2 < impact'.co2]_vars

\* the estimate of 7 input and 5 output tokens: 0.006 ml, 3.6e-6 kWh,
\* 0.0024 g, 0.00036 phone charges, 0.000024 glasses
C12_Witness ==
    /\ impact # NullObj
    /\ impact.tokens = [input |-> 7, output |-> 5, total |-> 12]
    /\ impact.water = 60 /\ impact.energy = 36 /\ impact.co2 = 24
    /\ impact.phoneCharges = 36 /\ impact.drinkingGlasses = 24

\* C13: a click on the text submit button while the text is empty or only
\* spaces, and a click on the photo submit button while no file is selected,
\* change nothing: no request is started, and loading, error, the result and
\* the accumulator stay as they were.
C13_RejectedSubmit ==
    [][(\/ ClickAnalyzeText /\ trim(textInput) = <<>>
        \/ ClickAnalyzeImage /\ image = Null)
          => UNCHANGED vars]_vars

\* the photo submit button is on the screen and enabled with no file
\* selected: the preview of a file picked before a reset was loaded after it
C13_Witness ==
    /\ AnalyzeImageShown /\ ~AnalyzeImageDisabled
    /\ image = Null
    /\ totalImpact.scans < MaxScans

\* the screens on display
ScreensShown ==
    {screen \in {"choice", "photo", "text", "result"} :
        \/ screen = "choice" /\ ChoiceScreen
        \/ screen = "photo" /\ PhotoScreen
        \/ screen = "text" /\ TextScreen
        \/ screen = "result" /\ ResultScreen}

\* C14 as stated: in every reachable state exactly one of the four screens
\* (mode choice, photo input, text input, result) is on display; the result
\* screen is never on display together with another one.
C14_OneScreen == Cardinality(ScreensShown) = 1

\* no result, no estimate and no error is stored
ResultCleared ==
    /\ ingredients = <<>> /\ recipes = <<>>
    /\ impact = NullObj
    /\ error = Null

\* C15 as stated: from a reset on and until the next submission, ingredients
\* and recipes are empty and impact and error are absent, whatever responses
\* arrive.  mode is 'choice' exactly from a reset (or the mount) until the
\* user chooses a mode, and the choice screen has no submit button: while
\* mode is 'choice' the user has reset and has not submitted since.
C15_ClearedUntilSubmit == mode = "choice" => ResultCleared

\* C16 as stated: in every reachable state a preview on display implies a
\* selected image, and the preview is that of the selected image.
C16_PreviewMatchesImage ==
    imagePreview # NullObj => (image # Null /\ imagePreview = DataURL(image))

=============================================================================
